---- MODULE Spec2Model ----
(***************************************************************************)
(* Model of the rover directory browser (src/src/rover/mod.rs):            *)
(* DirScraper (the navigation state and the controller loop `run`),        *)
(* Rover<C> (the component list with its pivot and window context) and     *)
(* the list renderer.                                                      *)
(*                                                                         *)
(* Paths are sequences of names, the root being the empty sequence.  The   *)
(* filesystem is a function from a bounded universe of paths to            *)
(* "none" | "dir" | "file"; it is read by the program and changed only by  *)
(* the environment (FsChange).  Option<T> is a sequence of length 0 or 1. *)
(***************************************************************************)
EXTENDS Integers, Sequences, FiniteSets, TLC

VARIABLES
    fs,               \* the filesystem: path -> "none" | "dir" | "file"
    fs_changes,       \* number of environment changes made to fs so far
    current_path,     \* DirScraper.current_path : Option<PathBuf>
    components,       \* Rover.components : Option<Vec<ListEntry>>
    pivot,            \* Rover.ctx.pivot : Option<usize>
    offset,           \* Rover.ctx.offset
    max_visible_rows, \* Rover.ctx.max_visible_rows
    should_exit,      \* DirScraper.should_exit
    mode,             \* DirScraper.mode
    terminal_dimens,  \* DirScraper.terminal_dimens (w, h)
    bounds,           \* ListRenderer.bounds (w, h)
    max_len,          \* ListWriter.max_len
    pc,               \* position of the program: "read" | "render" | "done" | "panicked" | "rover"
    last,             \* the last operation executed and its result
    frame,            \* the rows handed to the renderer by the last render
    out               \* the commands and bytes the last render queued on stdout

vars == <<fs, fs_changes, current_path, components, pivot, offset, max_visible_rows,
          should_exit, mode, terminal_dimens, bounds, max_len, pc, last, frame, out>>

nav == <<current_path, components, pivot>>

drawn == <<frame, out>>

-----------------------------------------------------------------------------
(* Bounds of the model *)

\* longest path of the universe, in names
MaxDepth == 2
\* number of changes the environment makes to the filesystem
MaxFsChanges == 1
\* largest terminal width reported by terminal::size() or a resize event
MaxWidth == 2
\* largest terminal height reported by terminal::size() or a resize event
MaxHeight == 2
\* longest list and largest index handed to a Rover on its own
MaxLen == 3

-----------------------------------------------------------------------------
(* Option<T> *)

None == <<>>
Some(x) == <<x>>
IsSome(o) == Len(o) = 1
IsNone(o) == Len(o) = 0
Unwrap(o) == o[1]

\* usize::MAX, written as the i64 its bits cast to (`as i64`)
USIZE_MAX == -1

-----------------------------------------------------------------------------
(* Paths and the filesystem *)

\* the names a directory entry can have, in the order the OS enumerates them
NameOrder == <<"a", "b">>

Names == {NameOrder[i] : i \in 1..Len(NameOrder)}

RECURSIVE PathsOfLen(_)
PathsOfLen(n) ==
    IF n = 0 THEN {<<>>}
    ELSE {Append(p, x) : p \in PathsOfLen(n - 1), x \in Names}

Paths == UNION {PathsOfLen(n) : n \in 0..MaxDepth}

Root == <<>>

\* Path::parent: None for the root
parent(p) == IF Len(p) = 0 THEN None ELSE Some(SubSeq(p, 1, Len(p) - 1))

\* Path::ancestors: the path itself, its parent, ... down to the root
RECURSIVE ancestors(_)
ancestors(p) ==
    IF Len(p) = 0 THEN <<p>>
    ELSE <<p>> \o ancestors(SubSeq(p, 1, Len(p) - 1))

exists(f, p) == f[p] # "none"

is_dir(f, p) == f[p] = "dir"

\* the children of p the OS enumerates, in its order
RECURSIVE ChildrenFrom(_, _, _)
ChildrenFrom(f, p, i) ==
    IF i > Len(NameOrder) THEN <<>>
    ELSE LET c == Append(p, NameOrder[i])
         IN  (IF c \in Paths /\ exists(f, c) THEN <<c>> ELSE <<>>)
             \o ChildrenFrom(f, p, i + 1)

fs_read_dir(f, p) == ChildrenFrom(f, p, 1)

\* a filesystem is well formed when only directories have children
WellFormed(f) ==
    /\ f[Root] = "dir"
    /\ \A p \in Paths : (p # Root /\ exists(f, p)) => is_dir(f, Unwrap(parent(p)))

\* the filesystem the program starts in:  /a/ (with /a/a/ empty and the file /a/b), file /b
InitFs ==
    [p \in Paths |->
        IF p = Root THEN "dir"
        ELSE IF p = <<"a">> THEN "dir"
        ELSE IF p = <<"b">> THEN "file"
        ELSE IF p = <<"a", "a">> THEN "dir"
        ELSE IF p = <<"a", "b">> THEN "file"
        ELSE "none"]

-----------------------------------------------------------------------------
(* ListEntry *)

ListEntry_from_dir_entry(f, p) ==
    [dir_entry |-> p, kind |-> IF is_dir(f, p) THEN "Dir" ELSE "File"]

ListEntry_parent(p) == [dir_entry |-> p, kind |-> "Parent"]

RECURSIVE MapEntries(_, _)
MapEntries(f, ps) ==
    IF ps = <<>> THEN <<>>
    ELSE <<ListEntry_from_dir_entry(f, Head(ps))>> \o MapEntries(f, Tail(ps))

\* read_dir pushing the Parent entry after the children instead of before them
read_dir_ParentLast(f, path) ==
    IF ~exists(f, path) THEN [res |-> "NotFound", v |-> <<>>]
    ELSE IF ~is_dir(f, path) THEN [res |-> "NotADirectory", v |-> <<>>]
    ELSE LET par == IF IsSome(parent(path)) THEN Unwrap(parent(path)) ELSE path
         IN  [res |-> "Ok",
              v   |-> MapEntries(f, fs_read_dir(f, path)) \o <<ListEntry_parent(par)>>]

\* DirScraper::read_dir
read_dir(f, path) ==
    IF ~exists(f, path) THEN [res |-> "NotFound", v |-> <<>>]
    ELSE IF ~is_dir(f, path) THEN [res |-> "NotADirectory", v |-> <<>>]
    ELSE LET par == IF IsSome(parent(path)) THEN Unwrap(parent(path)) ELSE path
         IN  [res |-> "Ok",
              v   |-> <<ListEntry_parent(par)>> \o MapEntries(f, fs_read_dir(f, path))]

-----------------------------------------------------------------------------
(* Rover<C>: a record [components, pivot, offset, max_visible_rows] *)

Rover_new(height) ==
    [components |-> None, pivot |-> None, offset |-> 0, max_visible_rows |-> height]

Rover_len(r) == IF IsSome(r.components) THEN Len(Unwrap(r.components)) ELSE 0

Rover_reset(r, new_components) == [r EXCEPT !.components = Some(new_components)]

\* Rover::set_selected: the assert panics when idx is outside 0..len
Rover_set_selected(r, idx) ==
    IF idx >= 0 /\ idx < Rover_len(r)
    THEN [r |-> [r EXCEPT !.pivot = Some(idx)], panicked |-> FALSE]
    ELSE [r |-> r, panicked |-> TRUE]

\* Rover::selected_ref
Rover_selected_ref(r) ==
    IF IsNone(r.components) \/ IsNone(r.pivot) THEN None
    ELSE LET p == Unwrap(r.pivot)
         IN  IF p >= 0 /\ p < Rover_len(r) THEN Some(Unwrap(r.components)[p + 1]) ELSE None

\* len - 1 on usize: with len = 0 it panics when overflow checks are on and wraps otherwise
UsizeDec(n) ==
    IF n > 0 THEN {[v |-> n - 1, panicked |-> FALSE]}
    ELSE {[v |-> n, panicked |-> TRUE], [v |-> USIZE_MAX, panicked |-> FALSE]}

\* pivot + 1 on usize: at usize::MAX it panics when overflow checks are on and wraps otherwise
UsizeInc(n) ==
    IF n # USIZE_MAX THEN {[v |-> n + 1, panicked |-> FALSE]}
    ELSE {[v |-> n, panicked |-> TRUE], [v |-> 0, panicked |-> FALSE]}

\* Direction::Down with the modulo left out
ShiftDown_NoWrap(r) ==
    {[r |-> [r EXCEPT !.pivot = Some(Unwrap(r.pivot) + 1)], panicked |-> FALSE]}

\* Direction::Down: *pivot += 1; *pivot %= len (the remainder by 0 panics)
ShiftDown(r) ==
    LET len == Rover_len(r)
    IN  {IF o.panicked THEN [r |-> r, panicked |-> TRUE]
         ELSE IF len = 0 THEN [r |-> [r EXCEPT !.pivot = Some(o.v)], panicked |-> TRUE]
         ELSE [r |-> [r EXCEPT !.pivot = Some(o.v % len)], panicked |-> FALSE]
         : o \in UsizeInc(Unwrap(r.pivot))}

\* Direction::Up wrapping to len instead of len - 1
ShiftUp_OffByOne(r) ==
    LET p == Unwrap(r.pivot)
    IN  {[r |-> [r EXCEPT !.pivot = Some(IF p - 1 < 0 THEN Rover_len(r) ELSE p - 1)],
          panicked |-> FALSE]}

\* Direction::Up: the pivot wraps to len - 1 when pivot as i64 - 1 < 0
ShiftUp(r) ==
    LET len == Rover_len(r)
        p   == Unwrap(r.pivot)
    IN  IF p - 1 < 0
        THEN {IF o.panicked
              THEN [r |-> r, panicked |-> TRUE]
              ELSE [r |-> [r EXCEPT !.pivot = Some(o.v)], panicked |-> FALSE]
              : o \in UsizeDec(len)}
        ELSE {[r |-> [r EXCEPT !.pivot = Some(p - 1)], panicked |-> FALSE]}

\* Rover::shift: the set of outcomes; the unwrap of a None pivot panics
Rover_shift(r, d) ==
    IF IsNone(r.pivot) THEN {[r |-> r, panicked |-> TRUE]}
    ELSE IF d = "Up" THEN ShiftUp(r)
    ELSE ShiftDown(r)

Min(a, b) == IF a < b THEN a ELSE b

\* Rover::render: skip(offset).take(max_rows).enumerate(), the flag compares the
\* pivot with the position in the window
Rover_rows(r) ==
    LET cs    == Unwrap(r.components)
        first == r.offset + 1
        n     == IF Len(cs) > r.offset
                 THEN Min(Len(cs) - r.offset, r.max_visible_rows) ELSE 0
    IN  [idx \in 1..n |->
            [selected |-> IsSome(r.pivot) /\ Unwrap(r.pivot) = idx - 1,
             c        |-> cs[first + idx - 1]]]

-----------------------------------------------------------------------------
(* The renderer: what a render queues on stdout, as a sequence of            *)
(* [cmd, bytes]; a name of NameOrder is one byte long                        *)

Cmd(c) == [cmd |-> c, bytes |-> <<>>]

\* Path::file_name: None for the root
file_name(p) == IF Len(p) = 0 THEN None ELSE Some(p[Len(p)])

\* impl Component for ListEntry: the bytes handed to the writer
ListEntry_render(e) ==
    LET binding == IF IsSome(file_name(e.dir_entry))
                   THEN Unwrap(file_name(e.dir_entry)) ELSE "?"
    IN  IF e.kind = "Dir" THEN <<binding, "/">>
        ELSE IF e.kind = "File" THEN <<binding>>
        ELSE <<".", ".", "/">>

\* impl Write for ListWriter: the prefix and buf cut to max_len, then next_line
ListWriter_write(is_selected, buf, maxlen) ==
    LET prefix == IF is_selected THEN <<">", " ">> ELSE <<" ", " ">>
        target == prefix \o buf
    IN  <<[cmd |-> "Write", bytes |-> SubSeq(target, 1, Min(Len(target), maxlen))],
          Cmd("ClearUntilNewLine"), Cmd("MoveToNextLine")>>

RECURSIVE WriteRows(_, _)
WriteRows(rows, maxlen) ==
    IF rows = <<>> THEN <<>>
    ELSE ListWriter_write(Head(rows).selected, ListEntry_render(Head(rows).c), maxlen)
         \o WriteRows(Tail(rows), maxlen)

\* impl Renderer for ListRenderer
ListRenderer_render(rows, maxlen) ==
    <<Cmd("ClearAll"), Cmd("BeginSynchronizedUpdate"), Cmd("MoveTo")>>
    \o WriteRows(rows, maxlen)
    \o <<Cmd("EndSynchronizedUpdate"), Cmd("flush")>>

-----------------------------------------------------------------------------
(* DirScraper: a record [current_path, rover]; every operation returns      *)
(* [s, res, panicked, target]: the state it leaves, the Result it returns   *)
(* ("Ok" or the error), whether it panicked, and the path handed to goto.   *)

\* goto without its set_selected(0): the pivot of the previous list is kept
goto_KeepPivot(f, s, selected_path) ==
    IF ~exists(f, selected_path)
    THEN [s |-> s, res |-> "NotFound", panicked |-> FALSE, target |-> Some(selected_path)]
    ELSE LET entries == read_dir(f, selected_path)
             s1      == [s EXCEPT !.current_path = Some(selected_path)]
         IN  IF entries.res # "Ok"
             THEN [s |-> s1, res |-> entries.res, panicked |-> FALSE,
                   target |-> Some(selected_path)]
             ELSE [s |-> [s1 EXCEPT !.rover = Rover_reset(s1.rover, entries.v)],
                   res |-> "Ok", panicked |-> FALSE, target |-> Some(selected_path)]

\* DirScraper::goto
goto(f, s, selected_path) ==
    IF ~exists(f, selected_path)
    THEN [s |-> s, res |-> "NotFound", panicked |-> FALSE, target |-> Some(selected_path)]
    ELSE LET entries == read_dir(f, selected_path)
             s1      == [s EXCEPT !.current_path = Some(selected_path)]
         IN  IF entries.res # "Ok"
             THEN [s |-> s1, res |-> entries.res, panicked |-> FALSE,
                   target |-> Some(selected_path)]
             ELSE LET sel == Rover_set_selected(Rover_reset(s1.rover, entries.v), 0)
                  IN  [s |-> [s1 EXCEPT !.rover = sel.r], res |-> "Ok",
                       panicked |-> sel.panicked, target |-> Some(selected_path)]

\* to_parent_entry falling back to the path itself at the root, as read_dir does
to_parent_entry_SelfAtRoot(f, s) ==
    LET cp            == Unwrap(s.current_path)
        taken         == [s EXCEPT !.current_path = None]
        cur_ancestors == ancestors(cp)
        g             == goto(f, taken, cur_ancestors[Min(2, Len(cur_ancestors))])
    IN  IF g.res # "Ok"
        THEN [g EXCEPT !.s = [g.s EXCEPT !.current_path = Some(cp)]]
        ELSE g

\* to_parent_entry without the map_err that puts current_path back
to_parent_entry_NoRestore(f, s) ==
    LET cp            == Unwrap(s.current_path)
        taken         == [s EXCEPT !.current_path = None]
        cur_ancestors == ancestors(cp)
    IN  IF Len(cur_ancestors) < 2
        THEN [s |-> [taken EXCEPT !.current_path = Some(cp)], res |-> "AtRoot",
              panicked |-> FALSE, target |-> None]
        ELSE goto(f, taken, cur_ancestors[2])

\* DirScraper::to_parent_entry
to_parent_entry(f, s) ==
    IF IsNone(s.current_path)
    THEN [s |-> s, res |-> "Ok", panicked |-> TRUE, target |-> None]
    ELSE LET cp            == Unwrap(s.current_path)
             taken         == [s EXCEPT !.current_path = None]
             cur_ancestors == ancestors(cp)
         IN  IF Len(cur_ancestors) < 2
             THEN [s |-> [taken EXCEPT !.current_path = Some(cp)], res |-> "AtRoot",
                   panicked |-> FALSE, target |-> None]
             ELSE LET g == goto(f, taken, cur_ancestors[2])
                  IN  IF g.res # "Ok"
                      THEN [g EXCEPT !.s = [g.s EXCEPT !.current_path = Some(cp)]]
                      ELSE g

\* opener::open, the OS handler of a file: it succeeds or fails
opener_open(p) == {"Ok", "OpenError"}

\* execute_entry with the File arm going to goto like the other kinds
execute_entry_GotoFile(f, s) ==
    LET selected == Rover_selected_ref(s.rover)
    IN  IF IsNone(selected)
        THEN {[s |-> s, res |-> "Ok", panicked |-> FALSE, target |-> None]}
        ELSE {goto(f, s, Unwrap(selected).dir_entry)}

\* DirScraper::execute_entry: the set of outcomes
execute_entry(f, s) ==
    LET selected == Rover_selected_ref(s.rover)
    IN  IF IsNone(selected)
        THEN {[s |-> s, res |-> "Ok", panicked |-> FALSE, target |-> None]}
        ELSE LET e == Unwrap(selected)
             IN  IF e.kind \in {"Dir", "Parent"}
                 THEN {goto(f, s, e.dir_entry)}
                 ELSE {[s |-> s, res |-> r, panicked |-> FALSE, target |-> None]
                       : r \in opener_open(e.dir_entry)}

-----------------------------------------------------------------------------
(* The program state as records *)

RoverRec ==
    [components |-> components, pivot |-> pivot, offset |-> offset,
     max_visible_rows |-> max_visible_rows]

Self == [current_path |-> current_path, rover |-> RoverRec]

\* the sizes terminal::size() and Event::Resize report: the smallest and the largest
\* width and height of the model
Sizes == [w : {1, MaxWidth}, h : {1, MaxHeight}]

\* DirScraper::init on a directory of the initial filesystem
Init ==
    \E path \in Paths, d \in Sizes :
        LET entries == read_dir(InitFs, path)
            sel     == Rover_set_selected(Rover_reset(Rover_new(d.h), entries.v), 0)
        IN  /\ entries.res = "Ok"
            /\ ~sel.panicked
            /\ fs = InitFs
            /\ fs_changes = 0
            /\ current_path = Some(path)
            /\ components = sel.r.components
            /\ pivot = sel.r.pivot
            /\ offset = sel.r.offset
            /\ max_visible_rows = sel.r.max_visible_rows
            /\ should_exit = FALSE
            /\ mode = "Flow"
            /\ terminal_dimens = d
            /\ bounds = d
            /\ max_len = d.w
            /\ pc = "read"
            /\ last = [cmd |-> "init", res |-> "Ok", target |-> None, arg |-> 0]
            /\ frame = <<>>
            /\ out = <<>>

\* the state a handler of `run` leaves; the unwrap() of an Err panics
Handled(cmd, o) ==
    /\ current_path' = o.s.current_path
    /\ components' = o.s.rover.components
    /\ pivot' = o.s.rover.pivot
    /\ offset' = o.s.rover.offset
    /\ max_visible_rows' = o.s.rover.max_visible_rows
    /\ last' = [cmd |-> cmd, res |-> o.res, target |-> o.target, arg |-> 0]
    /\ pc' = IF o.panicked \/ o.res # "Ok" THEN "panicked" ELSE "render"

\* Ctrl-q, Ctrl-Q
KeyQuit ==
    /\ pc = "read"
    /\ should_exit' = TRUE
    /\ pc' = "render"
    /\ last' = [cmd |-> "quit", res |-> "Ok", target |-> None, arg |-> 0]
    /\ UNCHANGED <<fs, fs_changes, nav, offset, max_visible_rows, mode,
                   terminal_dimens, bounds, max_len, drawn>>

\* Ctrl-c (Command) and Ctrl-f (Flow)
KeyMode(m) ==
    /\ pc = "read"
    /\ mode' = m
    /\ pc' = "render"
    /\ last' = [cmd |-> "mode", res |-> "Ok", target |-> None, arg |-> 0]
    /\ UNCHANGED <<fs, fs_changes, nav, offset, max_visible_rows, should_exit,
                   terminal_dimens, bounds, max_len, drawn>>

\* Ctrl-k, Enter
KeyExecute ==
    /\ pc = "read"
    /\ \E o \in execute_entry(fs, Self) : Handled("execute", o)
    /\ UNCHANGED <<fs, fs_changes, should_exit, mode, terminal_dimens, bounds,
                   max_len, drawn>>

\* Esc
KeyEsc ==
    /\ pc = "read"
    /\ Handled("ascend", to_parent_entry(fs, Self))
    /\ UNCHANGED <<fs, fs_changes, should_exit, mode, terminal_dimens, bounds,
                   max_len, drawn>>

\* the shift keys moving the pivot in Flow mode only
KeyShift_FlowOnly(d) ==
    /\ pc = "read"
    /\ \E o \in Rover_shift(RoverRec, d) :
          Handled("shift" \o d,
                  [s |-> [Self EXCEPT !.rover = IF mode = "Flow" THEN o.r ELSE RoverRec],
                   res |-> "Ok", panicked |-> o.panicked, target |-> None])
    /\ UNCHANGED <<fs, fs_changes, should_exit, mode, terminal_dimens, bounds,
                   max_len, drawn>>

\* j, J, Down (d = "Down") and k, K, Up (d = "Up")
KeyShift(d) ==
    /\ pc = "read"
    /\ \E o \in Rover_shift(RoverRec, d) :
          Handled("shift" \o d,
                  [s |-> [Self EXCEPT !.rover = o.r], res |-> "Ok",
                   panicked |-> o.panicked, target |-> None])
    /\ UNCHANGED <<fs, fs_changes, should_exit, mode, terminal_dimens, bounds,
                   max_len, drawn>>

\* Event::Resize(w, h)
Resize(d) ==
    /\ pc = "read"
    /\ terminal_dimens' = d
    /\ bounds' = d
    /\ pc' = "render"
    /\ last' = [cmd |-> "resize", res |-> "Ok", target |-> None, arg |-> 0]
    /\ UNCHANGED <<fs, fs_changes, nav, offset, max_visible_rows, should_exit, mode,
                   max_len, drawn>>

\* any other key, a key release, a mouse or focus event
OtherEvent ==
    /\ pc = "read"
    /\ pc' = "render"
    /\ last' = [cmd |-> "other", res |-> "Ok", target |-> None, arg |-> 0]
    /\ UNCHANGED <<fs, fs_changes, nav, offset, max_visible_rows, should_exit, mode,
                   terminal_dimens, bounds, max_len, drawn>>

\* the render without the should_exit test after it
Render_IgnoreExit ==
    /\ pc = "render"
    /\ frame' = Rover_rows(RoverRec)
    /\ out' = ListRenderer_render(Rover_rows(RoverRec), max_len)
    /\ pc' = "read"
    /\ UNCHANGED <<fs, fs_changes, nav, offset, max_visible_rows, should_exit, mode,
                   terminal_dimens, bounds, max_len, last>>

\* self.rover.render(&mut renderer), then the should_exit test that ends the loop
Render ==
    /\ pc = "render"
    /\ IF IsSome(components)
       THEN /\ frame' = Rover_rows(RoverRec)
            /\ out' = ListRenderer_render(Rover_rows(RoverRec), max_len)
            /\ pc' = IF should_exit THEN "done" ELSE "read"
       ELSE /\ UNCHANGED drawn
            /\ pc' = "panicked"
    /\ UNCHANGED <<fs, fs_changes, nav, offset, max_visible_rows, should_exit, mode,
                   terminal_dimens, bounds, max_len, last>>

\* q is p or lies below p
IsPrefix(p, q) == Len(p) <= Len(q) /\ SubSeq(q, 1, Len(p)) = p

\* the filesystem with p made k; what was below p goes when p is no directory any more
FsWith(f, p, k) ==
    [q \in Paths |->
        IF q = p THEN k
        ELSE IF k # "dir" /\ IsPrefix(p, q) THEN "none"
        ELSE f[q]]

\* the environment creates an entry in a directory, removes an entry (a directory
\* with all it holds) or replaces it
FsChange(p, k) ==
    /\ pc \in {"read", "render"}
    /\ fs_changes < MaxFsChanges
    /\ p # Root
    /\ fs[p] # k
    /\ WellFormed(FsWith(fs, p, k))
    /\ fs' = FsWith(fs, p, k)
    /\ fs_changes' = fs_changes + 1
    /\ UNCHANGED <<nav, offset, max_visible_rows, should_exit, mode,
                   terminal_dimens, bounds, max_len, pc, last, drawn>>

Next ==
    \/ KeyQuit
    \/ \E m \in {"Command", "Flow"} : KeyMode(m)
    \/ KeyExecute
    \/ KeyEsc
    \/ \E d \in {"Up", "Down"} : KeyShift(d)
    \/ \E d \in Sizes : Resize(d)
    \/ OtherEvent
    \/ Render
    \/ \E p \in Paths, k \in {"none", "dir", "file"} : FsChange(p, k)

Spec == Init /\ [][Next]_vars

-----------------------------------------------------------------------------
(* A Rover<C> on its own: Rover::new(height), then any calls of its methods *)

\* a list of n components
ListOfLen(n) == [i \in 1..n |-> [dir_entry |-> Root, kind |-> "File"]]

InitRover ==
    \E h \in 1..MaxHeight :
        LET r == Rover_new(h)
        IN  /\ fs = InitFs
            /\ fs_changes = 0
            /\ current_path = None
            /\ components = r.components
            /\ pivot = r.pivot
            /\ offset = r.offset
            /\ max_visible_rows = r.max_visible_rows
            /\ should_exit = FALSE
            /\ mode = "Flow"
            /\ terminal_dimens = [w |-> 1, h |-> h]
            /\ bounds = [w |-> 1, h |-> h]
            /\ max_len = 1
            /\ pc = "rover"
            /\ last = [cmd |-> "new", res |-> "Ok", target |-> None, arg |-> 0]
            /\ frame = <<>>
            /\ out = <<>>

\* the state a method of Rover leaves
Called(cmd, arg, o) ==
    /\ components' = o.r.components
    /\ pivot' = o.r.pivot
    /\ offset' = o.r.offset
    /\ max_visible_rows' = o.r.max_visible_rows
    /\ last' = [cmd |-> cmd, res |-> IF o.panicked THEN "panic" ELSE "Ok",
                target |-> None, arg |-> arg]
    /\ pc' = IF o.panicked THEN "panicked" ELSE "rover"
    /\ UNCHANGED <<fs, fs_changes, current_path, should_exit, mode, terminal_dimens,
                   bounds, max_len>>

RoverReset(n) ==
    /\ pc = "rover"
    /\ Called("reset", n, [r |-> Rover_reset(RoverRec, ListOfLen(n)), panicked |-> FALSE])
    /\ UNCHANGED drawn

RoverSetSelected(idx) ==
    /\ pc = "rover"
    /\ Called("set_selected", idx, Rover_set_selected(RoverRec, idx))
    /\ UNCHANGED drawn

RoverShift(d) ==
    /\ pc = "rover"
    /\ \E o \in Rover_shift(RoverRec, d) : Called("shift" \o d, 0, o)
    /\ UNCHANGED drawn

RoverRender ==
    /\ pc = "rover"
    /\ Called("render", 0, [r |-> RoverRec, panicked |-> IsNone(components)])
    /\ frame' = IF IsSome(components) THEN Rover_rows(RoverRec) ELSE frame
    /\ out' = IF IsSome(components)
              THEN ListRenderer_render(Rover_rows(RoverRec), max_len) ELSE out

NextRover ==
    \/ \E n \in 0..MaxLen : RoverReset(n)
    \/ \E idx \in 0..MaxLen : RoverSetSelected(idx)
    \/ \E d \in {"Up", "Down"} : RoverShift(d)
    \/ RoverRender

SpecRover == InitRover /\ [][NextRover]_vars

-----------------------------------------------------------------------------
(* Properties *)

\* a step of `run` that handles the command cmd
Handles(cmd) == pc = "read" /\ pc' # "read" /\ last'.cmd = cmd

\* a step of `run` in which goto was called
GotoStep == pc = "read" /\ pc' # "read" /\ IsSome(last'.target)

Entries == Unwrap(components)

\* C1: a goto to a target that does not exist or is not a directory returns an
\* error and leaves current_path, entries and pivot as they were
C1_GotoTransactional ==
    [][(GotoStep /\ ~is_dir(fs, Unwrap(last'.target)))
        => (last'.res \in {"NotFound", "NotADirectory"} /\ nav' = nav)]_vars

\* C2: at every render the pivot is inside the window: offset <= pivot < offset + capacity
C2_ViewportInvariant ==
    pc = "render" =>
        (offset <= Unwrap(pivot) /\ Unwrap(pivot) < offset + max_visible_rows)

\* C3: the loop of `run` ends only on the quit command; every other command,
\* failing or not, leaves it running
C3_OnlyQuitEndsLoop ==
    [][(pc \in {"read", "render"} /\ pc' \notin {"read", "render"})
        => last'.cmd = "quit"]_vars

\* C4: from directory D with the pivot p on a subdirectory, execute_selected
\* followed by ascend ends in D with the pivot p again
C4_DescentAscentRoundTrip ==
    (pc = "read" /\ IsSome(Rover_selected_ref(RoverRec))
                 /\ Unwrap(Rover_selected_ref(RoverRec)).kind = "Dir") =>
        \A d \in execute_entry(fs, Self) :
            d.res = "Ok" =>
                LET a == to_parent_entry(fs, d.s)
                IN  /\ a.res = "Ok"
                    /\ a.s.current_path = current_path
                    /\ a.s.rover.pivot = pivot

\* C5: on a list of len >= 1 entries shift is cyclic: Up from 0 gives len - 1,
\* Down from len - 1 gives 0, and from any other pivot the move is -1 (Up) or +1 (Down)
C5_ShiftCyclic ==
    [][LET len == Len(Entries)
           p   == Unwrap(pivot)
           q   == Unwrap(pivot')
       IN  /\ (Handles("shiftUp") /\ len >= 1) =>
                 (pc' = "render" /\ q = (IF p = 0 THEN len - 1 ELSE p - 1))
           /\ (Handles("shiftDown") /\ len >= 1) =>
                 (pc' = "render" /\ q = (IF p = len - 1 THEN 0 ELSE p + 1))]_vars

\* C5 witness: Down wrapped from len - 1 to 0 on a list of one entry
C5_Witness ==
    pc = "render" /\ last.cmd = "shiftDown" /\ Len(Entries) = 1 /\ pivot = Some(0)

\* C6: at the root, ascend returns AtRoot, calls no goto and leaves
\* current_path, entries and pivot as they were
C6_AscendAtRoot ==
    [][(Handles("ascend") /\ current_path = Some(Root))
        => (last'.res = "AtRoot" /\ IsNone(last'.target) /\ nav' = nav)]_vars

\* C6 witness: ascend was refused at the root with the pivot off the first entry
C6_Witness ==
    /\ last.cmd = "ascend" /\ last.res = "AtRoot"
    /\ current_path = Some(Root) /\ IsSome(pivot) /\ Unwrap(pivot) > 0

\* C7: set_selected(idx) with idx outside [0, len) returns IndexOutOfRange without
\* crashing and leaves the pivot alone; with idx inside it sets the pivot to idx
C7_SetSelectedRecoverable ==
    [][(pc = "rover" /\ last'.cmd = "set_selected") =>
        IF last'.arg < Rover_len(RoverRec)
        THEN pivot' = Some(last'.arg)
        ELSE pc' # "panicked" /\ last'.res = "IndexOutOfRange" /\ pivot' = pivot]_vars

\* C8: whenever entries is non-empty the pivot is defined and 0 <= pivot < entries.len()
C8_PivotInRange ==
    (IsSome(components) /\ Len(Entries) > 0) =>
        (IsSome(pivot) /\ 0 <= Unwrap(pivot) /\ Unwrap(pivot) < Len(Entries))

\* C8 witness: the pivot was shifted up from 0 to the last of three entries
C8_Witness ==
    pc = "render" /\ last.cmd = "shiftUp" /\ Len(Entries) = 3 /\ pivot = Some(2)

\* C9: a successful goto(target) ends with current_path = target, pivot = 0 and
\* entries the fresh listing of target
C9_GotoSuccess ==
    [][(GotoStep /\ last'.res = "Ok") =>
        /\ pc' = "render"
        /\ current_path' = last'.target
        /\ pivot' = Some(0)
        /\ components' = Some(read_dir(fs, Unwrap(last'.target)).v)]_vars

\* C9 witness: execute on a subdirectory selected at a pivot above 0 changed into
\* it, with a list other than the one of its parent
C9_Witness ==
    /\ pc = "render" /\ last.cmd = "execute" /\ last.res = "Ok"
    /\ last.target = Some(<<"a">>) /\ current_path = Some(<<"a">>)
    /\ pivot = Some(0) /\ Entries[1].dir_entry = Root
    /\ Entries = read_dir(fs, <<"a">>).v

\* C10: at the root the target of the Parent entry is not the root itself, and
\* activating it performs no goto from the root to the root
C10_ParentAtRootNotSelf ==
    [][(Handles("execute") /\ current_path = Some(Root) /\ pivot = Some(0)) =>
        /\ Entries[1].dir_entry # Root
        /\ last'.target # Some(Root)]_vars

\* the number of entries directory p holds in filesystem f
NumChildren(f, p) ==
    Cardinality({c \in Paths : Len(c) = Len(p) + 1 /\ IsPrefix(p, c) /\ exists(f, c)})

\* a step of `run` that completes a render
RenderStep == pc = "render" /\ pc' \in {"read", "done"}

\* a step of `run` that reads and handles an input event
EventStep == pc = "read" /\ fs' = fs

\* C11: a directory with N children is loaded as N + 1 entries, and in every
\* state the first entry, and no other, has kind Parent
C11_ParentFirst ==
    /\ [](/\ (IsSome(components) /\ Len(Entries) > 0) =>
                (/\ Entries[1].kind = "Parent"
                 /\ \A i \in 2..Len(Entries) : Entries[i].kind # "Parent")
          /\ last.cmd = "init" =>
                Len(Entries) = NumChildren(InitFs, Unwrap(current_path)) + 1)
    /\ [][(GotoStep /\ last'.res = "Ok") =>
            Len(Unwrap(components')) = NumChildren(fs, Unwrap(last'.target)) + 1]_vars

\* C11 witness: a directory with two children was loaded as three entries
C11_Witness ==
    /\ last.cmd = "ascend" /\ last.res = "Ok" /\ current_path = Some(<<"a">>)
    /\ NumChildren(fs, <<"a">>) = 2 /\ Len(Entries) = 3
    /\ Entries[1].kind = "Parent" /\ Entries[2].kind = "Dir" /\ Entries[3].kind = "File"

\* C12: execute_selected on a File entry calls no goto and leaves current_path,
\* entries and pivot as they were, whether the open handler succeeds or fails
\* (a failure is returned as OpenError)
C12_FileOpenKeepsState ==
    [][(/\ Handles("execute")
        /\ IsSome(Rover_selected_ref(RoverRec))
        /\ Unwrap(Rover_selected_ref(RoverRec)).kind = "File")
        => (/\ nav' = nav
            /\ IsNone(last'.target)
            /\ last'.res \in {"Ok", "OpenError"})]_vars

\* C12 witness: the open handler failed on the selected File entry
C12_Witness ==
    /\ last.cmd = "execute" /\ last.res = "OpenError"
    /\ IsSome(Rover_selected_ref(RoverRec))
    /\ Unwrap(Rover_selected_ref(RoverRec)).kind = "File"

\* C13: a resize changes neither current_path, entries nor pivot, and every render
\* uses the capacity of the current terminal height and draws no more rows than it
C13_ResizeSetsCapacity ==
    [][/\ Handles("resize") => nav' = nav
       /\ RenderStep => (/\ max_visible_rows = terminal_dimens.h
                         /\ Len(frame') <= terminal_dimens.h)]_vars

\* the commands that change the screen
ScreenCmds == {"ClearAll", "MoveTo", "Write", "ClearUntilNewLine", "MoveToNextLine"}

\* C14: every screen-modifying command of a frame comes after the
\* begin-synchronized-update marker and before the end-synchronized-update marker
C14_FrameAtomic ==
    \A i \in 1..Len(out) :
        out[i].cmd \in ScreenCmds =>
            /\ \E b \in 1..(i - 1) : out[b].cmd = "BeginSynchronizedUpdate"
            /\ \E e \in (i + 1)..Len(out) : out[e].cmd = "EndSynchronizedUpdate"

\* C15: every input event read is followed by one complete render before the next
\* input is read (or by nothing when its handler stops the program), and no input
\* is read once should_exit is set
C15_RenderBetweenInputs ==
    [][/\ EventStep => pc' \in {"render", "panicked"}
       /\ (pc = "render" /\ fs' = fs) =>
            (/\ pc' = (IF should_exit THEN "done" ELSE "read")
             /\ frame' = Rover_rows(RoverRec)
             /\ out'[Len(out')].cmd = "flush")
       /\ pc' = "read" => ~should_exit'
       /\ pc \in {"done", "panicked"} => pc' = pc]_vars

\* C15 witness: the loop ended after the render that followed the quit command
C15_Witness ==
    /\ pc = "done" /\ should_exit /\ last.cmd = "quit"
    /\ Len(out) > 0 /\ out[Len(out)].cmd = "flush"

\* C16: every row written by a render is at most as long as the current terminal width
C16_RowsFitWidth ==
    pc \in {"read", "done"} =>
        \A i \in 1..Len(out) :
            out[i].cmd = "Write" => Len(out[i].bytes) <= terminal_dimens.w

\* C17: the mode commands change the mode and nothing else, and the other commands
\* leave the mode alone and act on the navigation state as they do whatever the mode
C17_ModeOnlyFlag ==
    [][/\ Handles("mode") =>
            (/\ nav' = nav /\ offset' = offset /\ max_visible_rows' = max_visible_rows
             /\ should_exit' = should_exit /\ mode' \in {"Flow", "Command"})
       /\ (EventStep /\ last'.cmd # "mode") => mode' = mode
       /\ Handles("shiftUp") =>
            \E o \in Rover_shift(RoverRec, "Up") : nav' = <<current_path, o.r.components, o.r.pivot>>
       /\ Handles("shiftDown") =>
            \E o \in Rover_shift(RoverRec, "Down") : nav' = <<current_path, o.r.components, o.r.pivot>>
       /\ Handles("execute") =>
            \E o \in execute_entry(fs, Self) :
                nav' = <<o.s.current_path, o.s.rover.components, o.s.rover.pivot>>
       /\ Handles("ascend") =>
            LET o == to_parent_entry(fs, Self)
            IN  nav' = <<o.s.current_path, o.s.rover.components, o.s.rover.pivot>>
       /\ Handles("quit") => (nav' = nav /\ should_exit')]_vars

\* C17 witness: a shift moved the pivot in Command mode
C17_Witness ==
    /\ mode = "Command" /\ last.cmd = "shiftDown" /\ pc = "render" /\ pivot = Some(1)

\* C18: with entries non-empty, a render hands over exactly one row flagged selected,
\* and it is the entry at index pivot of the whole list
C18_OneSelectedRow ==
    [][(RenderStep /\ Len(Entries) > 0) =>
        /\ Cardinality({i \in 1..Len(frame') : frame'[i].selected}) = 1
        /\ \A i \in 1..Len(frame') :
              frame'[i].selected =>
                  (/\ offset + i = Unwrap(pivot) + 1
                   /\ frame'[i].c = Entries[Unwrap(pivot) + 1])]_vars

\* C19: current_path is always Some, and ascend leaves in it the parent when it
\* succeeds and the path it had when it fails
C19_CurrentPathDefined ==
    /\ [](IsSome(current_path))
    /\ [][Handles("ascend") =>
            current_path' = (IF last'.res = "Ok" THEN parent(Unwrap(current_path))
                             ELSE current_path)]_vars

\* C19 witness: the goto inside ascend failed and current_path is the path it was
C19_Witness ==
    /\ last.cmd = "ascend" /\ last.res = "NotFound"
    /\ last.target = Some(<<"a">>) /\ current_path = Some(<<"a", "a">>)

====
